---- MODULE Spec2Model ----
(***************************************************************************)
(* Host-side driver of the Wurth Telesto radio module (wurth-telesto).     *)
(*                                                                         *)
(* Two cooperating tasks share two heapless spsc queues:                   *)
(*   - Ingress::ingest reads the serial byte stream, cuts it into frames   *)
(*     and enqueues each frame into the event or the response queue;       *)
(*   - the Radio command methods write a request and poll the response     *)
(*     queue; poll_event polls the event queue.                            *)
(* A step of the model is the code between two await points.               *)
(***************************************************************************)
EXTENDS Integers, Sequences, FiniteSets, TLC

(***************************************************************************)
(* command.rs: constants of the wire format.                               *)
(***************************************************************************)
START == 2
MAX_PAYLOAD_LEN == 224
HEADER_LEN == 3
CHECKSUM_LEN == 1

\* lib.rs: `let mut buf = [0; 224]`, the buffer the methods pass to command().
COMMAND_BUF_LEN == 224

\* lib.rs: the const parameter N of the two heapless::spsc::Queue<_, N>.
RESPONSE_QUEUE_N == 2
EVENT_QUEUE_N == 16

(***************************************************************************)
(* Bounds of the model.                                                    *)
(***************************************************************************)
\* Number of segments (frames, noise) the device puts on the wire.
MaxSegments == 3
\* Number of transport reads that may fail with an I/O error.
MaxIoErrors == 1
\* Length of the payloads of which every one is encoded.
MaxData == 2

None == "None"

Min(a, b) == IF a < b THEN a ELSE b

(***************************************************************************)
(* u8 arithmetic.                                                          *)
(***************************************************************************)
RECURSIVE BitXor(_, _, _)
BitXor(a, b, n) ==
    IF n = 0 THEN 0
    ELSE ((a + b) % 2) + 2 * BitXor(a \div 2, b \div 2, n - 1)

\* `acc ^ x` on u8.
Xor(a, b) == BitXor(a, b, 8)

\* The closure of the fold, `|acc, &x| acc ^ x`, applied from the u8 acc to
\* bytes[i], ..., bytes[j] in this order.
RECURSIVE XorFold(_, _, _, _)
XorFold(bytes, acc, i, j) ==
    CASE i > j -> acc
      [] i <= j /\ acc \in 0..255 -> XorFold(bytes, Xor(acc, bytes[i]), i + 1, j)

\* The fold of bytes[i], ... from acc, taken in runs of 16 bytes.
RECURSIVE XorFoldFrom(_, _, _)
XorFoldFrom(bytes, acc, i) ==
    CASE i > Len(bytes) -> acc
      [] i <= Len(bytes) /\ acc \in 0..255 ->
            XorFoldFrom(bytes, XorFold(bytes, acc, i, Min(i + 15, Len(bytes))), i + 16)

\* A checksum that leaves the first byte out.
checksumSkipFirst(bytes) == XorFoldFrom(bytes, 0, 2)

\* command.rs checksum: bytes.iter().fold(0, |acc, &x| acc ^ x)
checksum(bytes) == XorFoldFrom(bytes, 0, 1)

(***************************************************************************)
(* command.rs: the three closed sets of command ids.                       *)
(***************************************************************************)
\* enum Request: `kind as u8`.
RequestCode(kind) ==
    CASE kind = "SendData" -> 0
      [] kind = "SendDataEx" -> 1
      [] kind = "SetMode" -> 4
      [] kind = "Reset" -> 5
      [] kind = "SetChannel" -> 6
      [] kind = "SetDestinationNetworkId" -> 7
      [] kind = "SetDestinationAddress" -> 8
      [] kind = "SetUserSetting" -> 9
      [] kind = "GetUserSetting" -> 10
      [] kind = "Rssi" -> 13
      [] kind = "Shutdown" -> 14
      [] kind = "Standby" -> 15
      [] kind = "TransmitPower" -> 17
      [] kind = "FactoryReset" -> 18

\* enum Response: `Self::X as u8`.
ResponseCode(kind) ==
    CASE kind = "SendData" -> 64
      [] kind = "SetMode" -> 68
      [] kind = "Reset" -> 69
      [] kind = "SetChannel" -> 70
      [] kind = "SetDestinationNetworkId" -> 71
      [] kind = "SetDestinationAddress" -> 72
      [] kind = "SetUserSetting" -> 73
      [] kind = "GetUserSetting" -> 74
      [] kind = "Rssi" -> 77
      [] kind = "Shutdown" -> 78
      [] kind = "Standby" -> 79
      [] kind = "TransmitPower" -> 81
      [] kind = "FactoryReset" -> 82

\* enum Event: `Self::X as u8`.
EventCode(kind) ==
    CASE kind = "DataRepeat" -> 128
      [] kind = "DataReceived" -> 129
      [] kind = "Reset" -> 133
      [] kind = "Wakeup" -> 143
      [] kind = "PacketTransmit" -> 144

\* The lookup with its second SendData arm answering for SetChannel's code.
ResponseTryFromRawArmsMixed(raw) ==
    CASE raw = ResponseCode("SendData") -> "SendData"
      [] raw = ResponseCode("SetMode") -> "SetMode"
      [] raw = ResponseCode("Reset") -> "Reset"
      [] raw = ResponseCode("SetChannel") -> "SendData"
      [] raw = ResponseCode("SetDestinationNetworkId") -> "SetDestinationNetworkId"
      [] raw = ResponseCode("SetDestinationAddress") -> "SetDestinationAddress"
      [] raw = ResponseCode("SetUserSetting") -> "SetUserSetting"
      [] raw = ResponseCode("GetUserSetting") -> "GetUserSetting"
      [] raw = ResponseCode("Rssi") -> "Rssi"
      [] raw = ResponseCode("Shutdown") -> "Shutdown"
      [] raw = ResponseCode("Standby") -> "Standby"
      [] raw = ResponseCode("TransmitPower") -> "TransmitPower"
      [] raw = ResponseCode("FactoryReset") -> "FactoryReset"
      [] OTHER -> None

\* Response::try_from_raw: the match arms in source order (SendData twice).
ResponseTryFromRaw(raw) ==
    CASE raw = ResponseCode("SendData") -> "SendData"
      [] raw = ResponseCode("SetMode") -> "SetMode"
      [] raw = ResponseCode("Reset") -> "Reset"
      [] raw = ResponseCode("SetChannel") -> "SetChannel"
      [] raw = ResponseCode("SendData") -> "SendData"
      [] raw = ResponseCode("SetDestinationNetworkId") -> "SetDestinationNetworkId"
      [] raw = ResponseCode("SetDestinationAddress") -> "SetDestinationAddress"
      [] raw = ResponseCode("SetUserSetting") -> "SetUserSetting"
      [] raw = ResponseCode("GetUserSetting") -> "GetUserSetting"
      [] raw = ResponseCode("Rssi") -> "Rssi"
      [] raw = ResponseCode("Shutdown") -> "Shutdown"
      [] raw = ResponseCode("Standby") -> "Standby"
      [] raw = ResponseCode("TransmitPower") -> "TransmitPower"
      [] raw = ResponseCode("FactoryReset") -> "FactoryReset"
      [] OTHER -> None

\* Event::try_from_raw.
EventTryFromRaw(raw) ==
    CASE raw = EventCode("DataRepeat") -> "DataRepeat"
      [] raw = EventCode("DataReceived") -> "DataReceived"
      [] raw = EventCode("Reset") -> "Reset"
      [] raw = EventCode("Wakeup") -> "Wakeup"
      [] raw = EventCode("PacketTransmit") -> "PacketTransmit"
      [] OTHER -> None

(***************************************************************************)
(* command.rs command(): the bytes buf[..len] it leaves in the buffer.     *)
(***************************************************************************)
\* An encoder whose length byte counts the checksum byte too.
commandLengthWithChecksum(kind, data) ==
    LET body == <<START, RequestCode(kind), Len(data) + CHECKSUM_LEN>> \o data
    IN  body \o <<checksum(body)>>

command(kind, data) ==
    LET body == <<START, RequestCode(kind), Len(data)>> \o data
    IN  body \o <<checksum(body)>>

\* `let len = HEADER_LEN + data.len() + CHECKSUM_LEN`, the value command() returns.
commandLen(data) == HEADER_LEN + Len(data) + CHECKSUM_LEN

(***************************************************************************)
(* lib.rs Frame<T> and the two queues.                                     *)
(***************************************************************************)
Frame(kind, data) == [command |-> kind, data |-> data]

\* heapless::spsc::Queue<T, N> is a ring of N slots that keeps one slot
\* free to tell full from empty: it holds at most N - 1 items.
Capacity(n) == n - 1

\* Producer::enqueue: Err(item) when the queue is full.
IsFull(q, n) == Len(q) >= Capacity(n)

\* A queue that overwrites its oldest item when full.
EnqueueOverwrite(q, n, frame) ==
    IF IsFull(q, n) THEN Append(Tail(q), frame) ELSE Append(q, frame)

\* `producer.enqueue(frame).ok()`: the frame is dropped when the queue is full.
Enqueue(q, n, frame) == IF IsFull(q, n) THEN q ELSE Append(q, frame)

(***************************************************************************)
(* The device side of the serial link: what arrives on the read half.      *)
(***************************************************************************)
\* A well-formed frame of the wire format:
\* START | COMMAND_ID | LENGTH | PAYLOAD | CHECKSUM.
DeviceFrame(code, data) ==
    LET body == <<START, code, Len(data)>> \o data
    IN  body \o <<checksum(body)>>

\* A frame whose checksum byte has one bit flipped.
CorruptFrame(code, data) ==
    LET body == <<START, code, Len(data)>> \o data
    IN  body \o <<Xor(checksum(body), 1)>>

\* What the device may put on the wire, piece by piece.
Segments ==
    << DeviceFrame(ResponseCode("TransmitPower"), <<50>>),
       DeviceFrame(EventCode("DataReceived"), <<START>>),
       CorruptFrame(ResponseCode("Reset"), <<0>>),
       <<START, ResponseCode("TransmitPower"), MAX_PAYLOAD_LEN + 1>>,
       <<0>> >>

SegIds == 1..Len(Segments)

RECURSIVE Flatten(_)
Flatten(ss) ==
    IF ss = <<>> THEN <<>> ELSE Segments[ss[1]] \o Flatten(Tail(ss))

\* Values an uninitialised payload byte may turn out to hold.
UninitBytes == {0, 170}

\* n copies of byte b.
Fill(n, b) == [i \in 1..n |-> b]

(***************************************************************************)
(* The caller side: the command methods of Radio and their arguments.      *)
(***************************************************************************)
Calls ==
    { [method |-> "reset", arg |-> <<>>],
      [method |-> "tx_power", arg |-> <<50>>],
      [method |-> "send", arg |-> <<7>>] }

\* The Request kind each method passes to command().
MethodRequest(m) ==
    CASE m = "send" -> "SendData"
      [] m = "reset" -> "Reset"
      [] m = "factory_reset" -> "FactoryReset"
      [] m = "standby" -> "Standby"
      [] m = "rssi" -> "Rssi"
      [] m = "tx_power" -> "TransmitPower"
      [] m = "channel" -> "SetChannel"
      [] m = "destination_net" -> "SetDestinationNetworkId"
      [] m = "destination_address" -> "SetDestinationAddress"
      [] m = "mode" -> "SetMode"

\* The conversion without its arm for 0xFF.
SendDataErrorFromNoPayloadInvalid(value) ==
    CASE value = 1 -> <<"AckTimeout">>
      [] value = 2 -> <<"InvalidChannel">>
      [] value = 3 -> <<"ChannelBusy">>
      [] value = 4 -> <<"ModuleBusy">>
      [] OTHER -> <<"Other", value>>

\* impl From<u8> for SendDataError.
SendDataErrorFrom(value) ==
    CASE value = 1 -> <<"AckTimeout">>
      [] value = 2 -> <<"InvalidChannel">>
      [] value = 3 -> <<"ChannelBusy">>
      [] value = 4 -> <<"ModuleBusy">>
      [] value = 255 -> <<"PayloadInvalid">>
      [] OTHER -> <<"Other", value>>

Ok(v) == [tag |-> "Ok", val |-> v]
ErrStatus(v) == [tag |-> "Status", val |-> v]
ErrIo == [tag |-> "Io", val |-> <<>>]
NoResult == [tag |-> "None", val |-> <<>>]

\* Every method taking 0 for success, tx_power and channel included.
InterpretZeroIsSuccess(m, arg, status) ==
    CASE m = "send" ->
            IF status = 0 THEN Ok(<<>>) ELSE ErrStatus(SendDataErrorFrom(status))
      [] m = "rssi" -> Ok(<<status>>)
      [] OTHER ->
            IF status = 0 THEN Ok(<<>>) ELSE ErrStatus(<<>>)

\* What a command method returns for the status byte response.data[0].
Interpret(m, arg, status) ==
    CASE m = "send" ->
            IF status = 0 THEN Ok(<<>>) ELSE ErrStatus(SendDataErrorFrom(status))
      [] m = "rssi" -> Ok(<<status>>)
      [] m \in {"tx_power", "channel"} ->
            IF status = arg[1] THEN Ok(<<>>) ELSE ErrStatus(<<>>)
      [] OTHER ->
            IF status = 0 THEN Ok(<<>>) ELSE ErrStatus(<<>>)

(***************************************************************************)
(* State.                                                                  *)
(***************************************************************************)
VARIABLES
    segs,         \* the segments the device sends (fixed by Init)
    wire,         \* the bytes of the read half, segs flattened
    pos,          \* number of bytes of wire the Ingress has consumed
    ioErrors,     \* number of reads that failed so far
    ipc,          \* Ingress::ingest: the await it is suspended at, or how it ended
    buf,          \* ingest: `buf`
    cmd,          \* ingest: `cmd`
    len,          \* ingest: `len`
    payload,      \* ingest: `payload`
    response,     \* the response queue
    event,        \* the event queue
    pushed,       \* history: every enqueue the Ingress attempted
    cpc,          \* Radio: "idle", "poll" (in poll_response), "event" (in
                  \* poll_event), "done", "panic"
    wokenBy,      \* Radio: what scheduled the next poll of the pending wait:
                  \* "call" (the first poll of the future), "self" (its own
                  \* wake_by_ref), "none" (no wait pending)
    call,         \* Radio: the command method running, with its argument
    result,       \* Radio: what the method returned
    taken,        \* Radio: the frame poll_response returned
    staleAtWrite, \* history: the response queue held a frame when the request was written
    serialTx,     \* the bytes of the running method's write to the write half
    delivered,    \* the frames poll_event returned
    codecIn,      \* the arguments of a direct call of command(), if any
    codecOut      \* what that call returned and left in its buffer

ingressVars == <<pos, ioErrors, ipc, buf, cmd, len, payload>>
queueVars == <<response, event>>
radioVars == <<cpc, wokenBy, call, result, taken, staleAtWrite, serialTx, delivered>>
codecVars == <<codecIn, codecOut>>
vars == <<segs, wire, ingressVars, queueVars, pushed, radioVars, codecVars>>

\* No direct call of command().
NoCodecIn == [kind |-> "none", data |-> <<>>, buflen |-> 0]
NoCodecOut == [tag |-> "none", size |-> 0, bytes |-> <<>>]

Zeros == <<0, 0, 0>>

\* The number of bytes the read half still holds.
Avail == Len(wire) - pos

\* The next n bytes of the read half.
Next_(n) == SubSeq(wire, pos + 1, pos + n)

Init ==
    /\ segs \in UNION {[1..n -> SegIds] : n \in 0..MaxSegments}
    /\ wire = Flatten(segs)
    /\ pos = 0
    /\ ioErrors = 0
    /\ ipc = "header"
    /\ buf = Zeros
    /\ cmd = 0
    /\ len = 0
    /\ payload = <<>>
    /\ response = <<>>
    /\ event = <<>>
    /\ pushed = <<>>
    /\ cpc = "idle"
    /\ wokenBy = "none"
    /\ call = [method |-> "none", arg |-> <<>>]
    /\ result = NoResult
    /\ taken = <<>>
    /\ staleAtWrite = FALSE
    /\ serialTx = <<>>
    /\ delivered = <<>>
    /\ codecIn = NoCodecIn
    /\ codecOut = NoCodecOut

(***************************************************************************)
(* Ingress::ingest.  read_exact either fills its buffer from the read half *)
(* or fails after j bytes; the code drops the Result (`.ok()`) and goes on *)
(* with whatever the buffer then holds.                                    *)
(***************************************************************************)
\* The length check off by one.
PayloadTooLongOffByOne(l) == l > MAX_PAYLOAD_LEN + 1

\* `if len > MAX_PAYLOAD_LEN`
PayloadTooLong(l) == l > MAX_PAYLOAD_LEN

\* Lines 295-307: what follows the read of the header into b.
AfterHeader(b) ==
    IF b[1] # START
    THEN /\ ipc' = "header"
         /\ buf' = Zeros
         /\ UNCHANGED <<cmd, len, payload>>
    ELSE IF PayloadTooLong(b[3])
    THEN /\ ipc' = "PayloadLength"
         /\ buf' = b
         /\ UNCHANGED <<cmd, len, payload>>
    ELSE /\ ipc' = "payload"
         /\ buf' = b
         /\ cmd' = b[2]
         /\ len' = b[3]
         /\ payload' = <<>>

\* Lines 292-307: `self.serial.read_exact(&mut buf).await.ok()` and the checks.
ReadHeader ==
    /\ ipc = "header"
    /\ \/ /\ Avail >= HEADER_LEN
          /\ pos' = pos + HEADER_LEN
          /\ UNCHANGED ioErrors
          /\ AfterHeader(Next_(HEADER_LEN))
       \/ /\ ioErrors < MaxIoErrors
          /\ \E j \in 0..Min(HEADER_LEN - 1, Avail) :
                /\ pos' = pos + j
                /\ AfterHeader(Next_(j) \o Fill(HEADER_LEN - j, 0))
          /\ ioErrors' = ioErrors + 1
    /\ UNCHANGED <<codecVars, segs, wire, queueVars, pushed, radioVars>>

\* Line 308: `self.serial.read_exact(&mut payload[0..len]).await.ok()`.
\* The bytes a failed read did not reach keep what set_len exposed.
ReadPayload ==
    /\ ipc = "payload"
    /\ \/ /\ Avail >= len
          /\ pos' = pos + len
          /\ payload' = Next_(len)
          /\ UNCHANGED ioErrors
       \/ /\ ioErrors < MaxIoErrors
          /\ len > 0
          /\ \E j \in 0..Min(len - 1, Avail), u \in UninitBytes :
                /\ pos' = pos + j
                /\ payload' = Next_(j) \o Fill(len - j, u)
          /\ ioErrors' = ioErrors + 1
    /\ ipc' = "checksum"
    /\ UNCHANGED <<codecVars, segs, wire, buf, cmd, len, queueVars, pushed, radioVars>>

\* Lines 315-333: classification and routing of the frame (cmd, payload).
Route ==
    IF EventTryFromRaw(cmd) # None
    THEN /\ event' = Enqueue(event, EVENT_QUEUE_N, Frame(EventTryFromRaw(cmd), payload))
         /\ pushed' = Append(pushed, [to |-> "event", code |-> cmd, data |-> payload,
                                      ok |-> ~IsFull(event, EVENT_QUEUE_N), at |-> pos])
         /\ UNCHANGED response
    ELSE IF ResponseTryFromRaw(cmd) # None
    THEN /\ response' = Enqueue(response, RESPONSE_QUEUE_N,
                                Frame(ResponseTryFromRaw(cmd), payload))
         /\ pushed' = Append(pushed, [to |-> "response", code |-> cmd, data |-> payload,
                                      ok |-> ~IsFull(response, RESPONSE_QUEUE_N), at |-> pos])
         /\ UNCHANGED event
    ELSE UNCHANGED <<response, event, pushed>>

\* Lines 310-334: `self.serial.read_exact(&mut buf).await.ok()` (into the
\* 3-byte buf, not into _checksum), no comparison, then the routing; the
\* loop starts over with a fresh buf.
ReadChecksum ==
    /\ ipc = "checksum"
    /\ \/ /\ Avail >= Len(buf)
          /\ pos' = pos + Len(buf)
          /\ UNCHANGED ioErrors
       \/ /\ ioErrors < MaxIoErrors
          /\ \E j \in 0..Min(Len(buf) - 1, Avail) : pos' = pos + j
          /\ ioErrors' = ioErrors + 1
    /\ Route
    /\ ipc' = "header"
    /\ buf' = Zeros
    /\ cmd' = 0
    /\ len' = 0
    /\ payload' = <<>>
    /\ UNCHANGED <<codecVars, segs, wire, radioVars>>

(***************************************************************************)
(* Radio: the command methods.  All ten have the same shape: encode,       *)
(* write, poll_response, interpret response.data[0].                       *)
(***************************************************************************)
NoCall == [method |-> "none", arg |-> <<>>]

\* `command(&mut buf, kind, data)` and `self.serial.write(&buf[..size]).await`
\* returning Ok: the method goes on to poll_response.
CallWritten(c, k) ==
    /\ cpc = "idle"
    /\ call' = c
    /\ serialTx' = SubSeq(command(MethodRequest(c.method), c.arg), 1, k)
    /\ cpc' = "poll"
    /\ wokenBy' = "call"
    /\ staleAtWrite' = (response # <<>>)
    /\ UNCHANGED <<codecVars, segs, wire, ingressVars, queueVars, pushed, result, taken, delivered>>

\* The write accepts the whole request: Ok(size).
CallOf(c) == CallWritten(c, commandLen(c.arg))

Call == \E c \in Calls : CallOf(c)

\* The write accepts only the first k bytes of the request, Ok(k) with
\* 0 < k < size: the method drops the count and goes on as after Ok(size).
CallWriteShort ==
    \E c \in Calls : \E k \in 1..commandLen(c.arg) :
        /\ k < commandLen(c.arg)
        /\ CallWritten(c, k)

\* The write error dropped, as the Ingress drops its read errors: the
\* method goes on to poll_response.
CallWriteErrorDropped ==
    /\ cpc = "idle"
    /\ \E c \in Calls : call' = c
    /\ cpc' = "poll"
    /\ wokenBy' = "call"
    /\ staleAtWrite' = (response # <<>>)
    /\ UNCHANGED <<codecVars, segs, wire, ingressVars, queueVars, pushed, result, taken,
                   serialTx, delivered>>

\* `self.serial.write(..).await.map_err(Error::Io)?` returning Err.
CallWriteFails ==
    /\ cpc = "idle"
    /\ \E c \in Calls : call' = c
    /\ cpc' = "done"
    /\ result' = ErrIo
    /\ UNCHANGED <<codecVars, segs, wire, ingressVars, queueVars, pushed, wokenBy, taken,
                   staleAtWrite, serialTx, delivered>>

\* What the method does with the frame poll_response returned:
\* `response.data[0]` panics on an empty payload.
Complete(c, frame) ==
    IF frame.data = <<>>
    THEN /\ cpc' = "panic"
         /\ result' = NoResult
    ELSE /\ cpc' = "done"
         /\ result' = Interpret(c.method, c.arg, frame.data[1])

\* poll_response: one poll of the poll_fn closure, and the rest of the
\* method when it is Ready.  On an empty queue the closure calls
\* `cx.waker().wake_by_ref()` before it returns Pending.
PollResponse ==
    /\ cpc = "poll"
    /\ \/ /\ response # <<>>
          /\ response' = Tail(response)
          /\ taken' = <<Head(response)>>
          /\ wokenBy' = "none"
          /\ Complete(call, Head(response))
       \/ /\ response = <<>>
          /\ wokenBy' = "self"
          /\ UNCHANGED <<response, taken, cpc, result>>
    /\ UNCHANGED <<codecVars, segs, wire, ingressVars, event, pushed, call, staleAtWrite,
                   serialTx, delivered>>

\* The method has returned; the caller may invoke the next one.
Return ==
    /\ cpc = "done"
    /\ cpc' = "idle"
    /\ call' = NoCall
    /\ result' = NoResult
    /\ taken' = <<>>
    /\ staleAtWrite' = FALSE
    /\ serialTx' = <<>>
    /\ UNCHANGED <<codecVars, segs, wire, ingressVars, queueVars, pushed, wokenBy, delivered>>

\* poll_event returning the oldest event without taking it off the queue.
PollEventPeek ==
    /\ cpc \in {"idle", "event"}
    /\ event # <<>>
    /\ delivered' = Append(delivered, Head(event))
    /\ cpc' = "idle"
    /\ wokenBy' = "none"
    /\ UNCHANGED <<codecVars, segs, wire, ingressVars, response, event, pushed, call,
                   result, taken, staleAtWrite, serialTx>>

\* poll_event: one poll of the poll_fn closure, the first of a wait or a
\* later one.  It borrows the Radio mutably, as the command methods do, so
\* it runs between them.  On an empty queue the closure calls
\* `cx.waker().wake_by_ref()` before it returns Pending.
PollEvent ==
    /\ cpc \in {"idle", "event"}
    /\ \/ /\ event # <<>>
          /\ event' = Tail(event)
          /\ delivered' = Append(delivered, Head(event))
          /\ cpc' = "idle"
          /\ wokenBy' = "none"
       \/ /\ event = <<>>
          /\ cpc' = "event"
          /\ wokenBy' = "self"
          /\ UNCHANGED <<event, delivered>>
    /\ UNCHANGED <<codecVars, segs, wire, ingressVars, response, pushed, call, result,
                   taken, staleAtWrite, serialTx>>

Next ==
    \/ ReadHeader
    \/ ReadPayload
    \/ ReadChecksum
    \/ Call
    \/ CallWriteFails
    \/ PollResponse
    \/ Return
    \/ PollEvent

Spec == Init /\ [][Next]_vars

(***************************************************************************)
(* The command methods alone, for every status byte: the response queue    *)
(* holds one frame whose first payload byte is any byte, and the caller    *)
(* invokes any method; tx_power and channel with any requested value.      *)
(***************************************************************************)
Bytes == 0..255

AllCalls ==
    {[method |-> m, arg |-> <<>>] : m \in {"reset", "factory_reset", "standby", "rssi"}}
    \cup {[method |-> m, arg |-> <<v>>] : m \in {"tx_power", "channel"}, v \in Bytes}
    \cup {[method |-> m, arg |-> <<1>>] :
              m \in {"destination_net", "destination_address", "mode"}}
    \cup {[method |-> "send", arg |-> <<7>>]}

InitRadio ==
    /\ segs = <<>>
    /\ wire = <<>>
    /\ pos = 0
    /\ ioErrors = 0
    /\ ipc = "header"
    /\ buf = Zeros
    /\ cmd = 0
    /\ len = 0
    /\ payload = <<>>
    /\ \E s \in Bytes : response = <<Frame("TransmitPower", <<s>>)>>
    /\ event = <<>>
    /\ pushed = <<>>
    /\ cpc = "idle"
    /\ wokenBy = "none"
    /\ call = NoCall
    /\ result = NoResult
    /\ taken = <<>>
    /\ staleAtWrite = FALSE
    /\ serialTx = <<>>
    /\ delivered = <<>>
    /\ codecIn = NoCodecIn
    /\ codecOut = NoCodecOut

CallAny == \E c \in AllCalls : CallOf(c)

NextRadio ==
    \/ CallAny
    \/ PollResponse
    \/ Return

SpecRadio == InitRadio /\ [][NextRadio]_vars

(***************************************************************************)
(* command() alone, looped back: command() is called on any Request kind,  *)
(* a payload and a buffer, and the bytes it leaves in the buffer arrive on *)
(* the read half, where Ingress::ingest parses them.                       *)
(***************************************************************************)
RequestKinds ==
    {"SendData", "SendDataEx", "SetMode", "Reset", "SetChannel",
     "SetDestinationNetworkId", "SetDestinationAddress", "SetUserSetting",
     "GetUserSetting", "Rssi", "Shutdown", "Standby", "TransmitPower", "FactoryReset"}

\* The payload of the test frame_checksum: "Hello World!".
HelloWorld == <<72, 101, 108, 108, 111, 32, 87, 111, 114, 108, 100, 33>>

\* Payload bytes of the short payloads.
CodecBytes == {0, START, 255}

\* The payloads: every short one, the test's, and long ones up to the
\* maximum and one byte beyond it.
CodecData ==
    UNION {[1..n -> CodecBytes] : n \in 0..MaxData}
    \cup {HelloWorld}
    \cup {Fill(n, 255) : n \in {COMMAND_BUF_LEN - HEADER_LEN - CHECKSUM_LEN,
                                 MAX_PAYLOAD_LEN - 1, MAX_PAYLOAD_LEN, MAX_PAYLOAD_LEN + 1}}

\* The buffers: the one the command methods use, and one that holds the
\* longest frame.
CodecBufLens == {COMMAND_BUF_LEN, HEADER_LEN + MAX_PAYLOAD_LEN + CHECKSUM_LEN}

\* The two assertions of command().
commandPanics(buflen, data) ==
    \/ ~(Len(data) <= MAX_PAYLOAD_LEN)
    \/ ~(buflen >= commandLen(data))

InitCodec ==
    /\ segs = <<>>
    /\ wire = <<>>
    /\ pos = 0
    /\ ioErrors = 0
    /\ ipc = "header"
    /\ buf = Zeros
    /\ cmd = 0
    /\ len = 0
    /\ payload = <<>>
    /\ response = <<>>
    /\ event = <<>>
    /\ pushed = <<>>
    /\ cpc = "idle"
    /\ wokenBy = "none"
    /\ call = NoCall
    /\ result = NoResult
    /\ taken = <<>>
    /\ staleAtWrite = FALSE
    /\ serialTx = <<>>
    /\ delivered = <<>>
    /\ codecIn \in [kind : RequestKinds, data : CodecData, buflen : CodecBufLens]
    /\ codecOut = NoCodecOut

\* command(&mut buf, kind, data), and buf[..len] sent through a loopback.
Encode ==
    /\ codecOut = NoCodecOut
    /\ IF commandPanics(codecIn.buflen, codecIn.data)
       THEN /\ codecOut' = [tag |-> "panic", size |-> 0, bytes |-> <<>>]
            /\ UNCHANGED wire
       ELSE /\ codecOut' = [tag |-> "ok", size |-> commandLen(codecIn.data),
                            bytes |-> command(codecIn.kind, codecIn.data)]
            /\ wire' = command(codecIn.kind, codecIn.data)
    /\ UNCHANGED <<codecIn, segs, ingressVars, queueVars, pushed, radioVars>>

NextCodec ==
    \/ Encode
    \/ ReadHeader
    \/ ReadPayload
    \/ ReadChecksum

SpecCodec == InitCodec /\ [][NextCodec]_vars

(***************************************************************************)
(* The Ingress alone, for every command id: the device sends a well-formed *)
(* frame with any byte as its command id, and a DataReceived event after   *)
(* it.                                                                     *)
(***************************************************************************)
ResponseKinds ==
    {"SendData", "SetMode", "Reset", "SetChannel", "SetDestinationNetworkId",
     "SetDestinationAddress", "SetUserSetting", "GetUserSetting", "Rssi",
     "Shutdown", "Standby", "TransmitPower", "FactoryReset"}

EventKinds == {"DataRepeat", "DataReceived", "Reset", "Wakeup", "PacketTransmit"}

\* The payloads of the first frame.
ClassifyData == {<<>>, <<7>>}

InitClassify ==
    /\ segs = <<>>
    /\ \E b \in Bytes, d \in ClassifyData :
          wire = DeviceFrame(b, d) \o DeviceFrame(EventCode("DataReceived"), <<9>>)
    /\ pos = 0
    /\ ioErrors = 0
    /\ ipc = "header"
    /\ buf = Zeros
    /\ cmd = 0
    /\ len = 0
    /\ payload = <<>>
    /\ response = <<>>
    /\ event = <<>>
    /\ pushed = <<>>
    /\ cpc = "idle"
    /\ wokenBy = "none"
    /\ call = NoCall
    /\ result = NoResult
    /\ taken = <<>>
    /\ staleAtWrite = FALSE
    /\ serialTx = <<>>
    /\ delivered = <<>>
    /\ codecIn = NoCodecIn
    /\ codecOut = NoCodecOut

NextClassify ==
    \/ ReadHeader
    \/ ReadPayload
    \/ ReadChecksum

SpecClassify == InitClassify /\ [][NextClassify]_vars

(***************************************************************************)
(* One exchange over a transport that may accept a part of a write: the    *)
(* device sends a well-formed frame of any Response variant, with or       *)
(* without a payload byte, and a DataReceived event after it; the caller   *)
(* invokes the command methods.                                            *)
(***************************************************************************)
InitExchange ==
    /\ segs = <<>>
    /\ \E k \in ResponseKinds, d \in ClassifyData :
          wire = DeviceFrame(ResponseCode(k), d)
                 \o DeviceFrame(EventCode("DataReceived"), <<9>>)
    /\ pos = 0
    /\ ioErrors = 0
    /\ ipc = "header"
    /\ buf = Zeros
    /\ cmd = 0
    /\ len = 0
    /\ payload = <<>>
    /\ response = <<>>
    /\ event = <<>>
    /\ pushed = <<>>
    /\ cpc = "idle"
    /\ wokenBy = "none"
    /\ call = NoCall
    /\ result = NoResult
    /\ taken = <<>>
    /\ staleAtWrite = FALSE
    /\ serialTx = <<>>
    /\ delivered = <<>>
    /\ codecIn = NoCodecIn
    /\ codecOut = NoCodecOut

NextExchange ==
    \/ ReadHeader
    \/ ReadPayload
    \/ ReadChecksum
    \/ Call
    \/ CallWriteShort
    \/ CallWriteFails
    \/ PollResponse
    \/ Return
    \/ PollEvent

SpecExchange == InitExchange /\ [][NextExchange]_vars

(***************************************************************************)
(* Vocabulary of the properties.                                           *)
(***************************************************************************)
\* bytes is a frame of the wire format with a matching checksum.
WellFormed(bytes) ==
    /\ Len(bytes) >= HEADER_LEN + CHECKSUM_LEN
    /\ bytes[1] = START
    /\ bytes[3] = Len(bytes) - HEADER_LEN - CHECKSUM_LEN
    /\ bytes[3] <= MAX_PAYLOAD_LEN
    /\ bytes[Len(bytes)] = checksum(SubSeq(bytes, 1, Len(bytes) - 1))

\* Segment id i is a well-formed Event or Response frame.
IsFrameSeg(i) ==
    /\ WellFormed(Segments[i])
    /\ \/ EventTryFromRaw(Segments[i][2]) # None
       \/ ResponseTryFromRaw(Segments[i][2]) # None

\* Segment id i is one byte of line noise.
IsNoiseSeg(i) == Len(Segments[i]) = 1 /\ Segments[i][1] # START

PayloadOf(bytes) == SubSeq(bytes, HEADER_LEN + 1, Len(bytes) - CHECKSUM_LEN)

\* The enqueues attempted into one channel, oldest first.
PushesTo(ch) == SelectSeq(pushed, LAMBDA p : p.to = ch)

\* The frames of the wire that belong to one channel, in wire order.
RECURSIVE WireFramesOf(_, _)
WireFramesOf(ss, ch) ==
    IF ss = <<>> THEN <<>>
    ELSE LET b == Segments[ss[1]]
             mine == IF ch = "event" THEN EventTryFromRaw(b[2]) # None
                     ELSE EventTryFromRaw(b[2]) = None /\ ResponseTryFromRaw(b[2]) # None
         IN  (IF mine THEN <<[code |-> b[2], data |-> PayloadOf(b)]>> ELSE <<>>)
             \o WireFramesOf(Tail(ss), ch)

\* What was pushed into one channel, as (code, data) pairs.
PushedFramesOf(ch) ==
    [i \in 1..Len(PushesTo(ch)) |->
        [code |-> PushesTo(ch)[i].code, data |-> PushesTo(ch)[i].data]]

\* A step of ingest that completes the read named by its await.
HeaderStep == ipc = "header" /\ (pos' # pos \/ ioErrors' # ioErrors)
ChecksumStep == ipc = "checksum" /\ ipc' # "checksum"

\* The checksum byte on the wire matches the frame ingest is about to route.
ChecksumMatches ==
    /\ Avail >= CHECKSUM_LEN
    /\ wire[pos + 1] = checksum(<<START, cmd, len>> \o payload)

\* The frame ingest is about to route goes to a queue that is full.
TargetFull ==
    \/ EventTryFromRaw(cmd) # None /\ Len(event) = Capacity(EVENT_QUEUE_N)
    \/ /\ EventTryFromRaw(cmd) = None
       /\ ResponseTryFromRaw(cmd) # None
       /\ Len(response) = Capacity(RESPONSE_QUEUE_N)

(***************************************************************************)
(* C1.  The Ingress enqueues a frame only if its trailing checksum byte is *)
(* the XOR of the bytes before it; a frame whose checksum does not match   *)
(* is discarded and the loop resumes at the header.  (Stated for the runs  *)
(* in which no read has failed.)                                           *)
(***************************************************************************)
C1_ChecksumVerified ==
    [][ (ChecksumStep /\ ioErrors' = 0) =>
          /\ (pushed' # pushed => ChecksumMatches)
          /\ (~ChecksumMatches =>
                response' = response /\ event' = event /\ ipc' = "header") ]_vars

(***************************************************************************)
(* C2.  One pass over a frame of payload length L consumes L + 4 bytes:    *)
(* 3 for the header, L for the payload, 1 for the checksum (no read        *)
(* failing).                                                               *)
(***************************************************************************)
C2_FrameConsumesLenPlus4 ==
    [][ ioErrors' = 0 =>
          /\ (ipc = "header" /\ ipc' = "payload" => pos' = pos + HEADER_LEN)
          /\ (ipc = "payload" /\ ipc' = "checksum" => pos' = pos + len)
          /\ (ChecksumStep => pos' = pos + CHECKSUM_LEN) ]_vars

(***************************************************************************)
(* C3.  Resynchronisation is byte-granular: after k noise bytes followed   *)
(* by a well-formed frame, once the Ingress has consumed the k bytes and   *)
(* the frame it has pushed that frame.                                     *)
(***************************************************************************)
C3_ByteGranularResync ==
    \A k \in 0..(Len(segs) - 1) :
        LET f == Segments[segs[k + 1]] IN
        ( /\ \A i \in 1..k : IsNoiseSeg(segs[i])
          /\ IsFrameSeg(segs[k + 1])
          /\ ioErrors = 0
          /\ pos >= k + Len(f) )
        => \E i \in 1..Len(pushed) :
              /\ pushed[i].at = k + Len(f) - CHECKSUM_LEN
              /\ pushed[i].code = f[2]
              /\ pushed[i].data = PayloadOf(f)

(***************************************************************************)
(* C4.  When the wire is a sequence of well-formed Event and Response      *)
(* frames and no queue was full, then once the Ingress has consumed the    *)
(* wire every Event frame was pushed to the event queue and every Response *)
(* frame to the response queue, in wire order.                             *)
(***************************************************************************)
C4_InterleavedRouting ==
    ( /\ segs # <<>>
      /\ \A i \in 1..Len(segs) : IsFrameSeg(segs[i])
      /\ ioErrors = 0
      /\ \A i \in 1..Len(pushed) : pushed[i].ok
      /\ ~IsFull(response, RESPONSE_QUEUE_N)
      /\ ~IsFull(event, EVENT_QUEUE_N)
      /\ pos >= Len(wire) )
    => /\ PushedFramesOf("event") = WireFramesOf(segs, "event")
       /\ PushedFramesOf("response") = WireFramesOf(segs, "response")

(***************************************************************************)
(* C5.  While the consumer dequeues nothing, the response queue retains    *)
(* the first 2 frames pushed to it and the event queue the first 16.       *)
(***************************************************************************)
\* Every frame a queue accepted is still in it.
NothingDequeued(ch, q) ==
    Len(q) = Len(SelectSeq(PushesTo(ch), LAMBDA p : p.ok))

C5_QueueDepths ==
    /\ NothingDequeued("response", response) =>
          Len(response) = Min(Len(PushesTo("response")), 2)
    /\ NothingDequeued("event", event) =>
          Len(event) = Min(Len(PushesTo("event")), 16)

(***************************************************************************)
(* C6.  A push into a full queue drops the new frame: both queues keep     *)
(* their content and order, and the Ingress is back at the head of its     *)
(* loop (it neither blocks nor ends).                                      *)
(***************************************************************************)
C6_DropOnFull ==
    [][ (ChecksumStep /\ TargetFull) =>
          /\ response' = response
          /\ event' = event
          /\ ipc' = "header" ]_vars

\* A frame was dropped on a full response queue, the queue still holds the
\* frame that was there, and the loop is reading on.
C6_Witness ==
    /\ \E i \in 1..Len(pushed) : ~pushed[i].ok /\ pushed[i].to = "response"
    /\ Len(response) = Capacity(RESPONSE_QUEUE_N)
    /\ ipc = "header"

(***************************************************************************)
(* C7.  A transport read that fails ends ingest with the I/O error, and    *)
(* nothing is enqueued from it.                                            *)
(***************************************************************************)
C7_ReadErrorEndsIngest ==
    [][ ioErrors' # ioErrors => ipc' = "Io" /\ pushed' = pushed ]_vars

(***************************************************************************)
(* C8.  A header with the start byte and a length byte above 224 ends      *)
(* ingest with PayloadLength: no payload is read, nothing is enqueued, and *)
(* ingest does nothing more.  No other header ends it that way.            *)
(***************************************************************************)
C8_PayloadLength ==
    [][ /\ (HeaderStep /\ ioErrors' = ioErrors) =>
              ( ipc' = "PayloadLength"
                <=> (wire[pos + 1] = START /\ wire[pos + 3] > 224) )
        /\ (ipc' = "PayloadLength" /\ ipc # "PayloadLength") =>
              /\ ipc = "header"
              /\ pos' = pos + HEADER_LEN
              /\ buf'[1] = START /\ buf'[3] > 224
              /\ UNCHANGED <<payload, response, event, pushed>>
        /\ ipc = "PayloadLength" =>
              UNCHANGED <<ingressVars, pushed>> ]_vars

\* ingest has returned Err(IngestError::PayloadLength) on a 225-byte length.
C8_Witness ==
    /\ ipc = "PayloadLength"
    /\ buf[1] = START
    /\ buf[3] = MAX_PAYLOAD_LEN + 1
    /\ pushed = <<>>

(***************************************************************************)
(* C9.  A command method completes only on the Response of the kind that   *)
(* corresponds to the Request it wrote.  (Stated for the runs in which no  *)
(* read has failed and the frame arrived after the request was written.)   *)
(***************************************************************************)
C9_MatchingResponse ==
    (cpc = "done" /\ taken # <<>> /\ ioErrors = 0 /\ ~staleAtWrite) =>
        taken[1].command = MethodRequest(call.method)

(***************************************************************************)
(* C10.  The Response a command dequeues was enqueued after the command    *)
(* wrote its request: a frame that was already in the response queue at    *)
(* the write is not taken as the acknowledgement.  (Stated for the runs in *)
(* which no read has failed.)                                              *)
(***************************************************************************)
C10_NoCrossTalk ==
    (cpc \in {"done", "panic"} /\ taken # <<>> /\ ioErrors = 0) => ~staleAtWrite

(***************************************************************************)
(* The scheduling of the tasks.  The executor polls a task whose waker has *)
(* been signalled, and a read of the Ingress completes when the read half  *)
(* holds its bytes: each step that can change the state is taken           *)
(* eventually.                                                             *)
(***************************************************************************)
FairSpec ==
    /\ Init
    /\ [][Next]_vars
    /\ WF_vars(ReadHeader /\ ioErrors' = ioErrors)
    /\ WF_vars(ReadPayload /\ ioErrors' = ioErrors)
    /\ WF_vars(ReadChecksum /\ ioErrors' = ioErrors)
    /\ WF_vars(PollResponse)
    /\ WF_vars(PollEvent)

\* C11: a command method that has written its request eventually returns
\* (with the response, or with a Timeout error when none is enqueued within
\* the bounded wait).  (Stated for the runs in which no read has failed.)
C11_CommandReturns == (cpc = "poll") ~> (cpc \in {"done", "panic"} \/ ioErrors > 0)

\* C12: a wait on a channel is rescheduled by a push into its queue only:
\* the next poll of a pending poll_response or poll_event is never scheduled
\* by the waiter's own wake.
C12_WakeOnPush == (cpc \in {"poll", "event"}) => wokenBy # "self"

\* C13: when the write of a method's request fails (nothing reaches the
\* write half), the method returns Error::Io at once: it does not enter
\* poll_response, takes no frame, and leaves both queues as they are.
C13_WriteErrorReturnsIo ==
    [][(cpc = "idle" /\ call' # NoCall /\ serialTx' = <<>>)
        => /\ cpc' = "done"
           /\ result' = ErrIo
           /\ taken' = <<>>
           /\ response' = response
           /\ event' = event]_vars

C13_Witness ==
    /\ cpc = "done"
    /\ result = ErrIo
    /\ response # <<>>
    /\ event # <<>>

\* The status byte of the frame the method took.
StatusTaken == taken[1].data[1]

\* C14: tx_power(v) and channel(v) return Ok(()) exactly when the status
\* byte equals v, and Error::Status(()) for every other status byte, 0
\* included when v is not 0.
C14_EchoedValueIsSuccess ==
    (cpc = "done" /\ taken # <<>> /\ call.method \in {"tx_power", "channel"})
        => /\ (result = Ok(<<>>)) <=> (StatusTaken = call.arg[1])
           /\ (StatusTaken # call.arg[1]) => result = ErrStatus(<<>>)

C14_Witness ==
    /\ cpc = "done"
    /\ call = [method |-> "channel", arg |-> <<50>>]
    /\ taken # <<>>
    /\ StatusTaken = 0
    /\ result = ErrStatus(<<>>)

\* The SendDataError the claim gives for a non-zero status byte.
ExpectedSendDataError(st) ==
    IF st = 1 THEN <<"AckTimeout">>
    ELSE IF st = 2 THEN <<"InvalidChannel">>
    ELSE IF st = 3 THEN <<"ChannelBusy">>
    ELSE IF st = 4 THEN <<"ModuleBusy">>
    ELSE IF st = 255 THEN <<"PayloadInvalid">>
    ELSE <<"Other", st>>

\* C15: send, reset, factory_reset, standby, destination_net,
\* destination_address and mode return Ok(()) exactly when the status byte
\* is 0; on any other status byte send returns Error::Status with the
\* SendDataError of that byte and the others return Error::Status(()).
C15_ZeroIsSuccess ==
    (/\ cpc = "done"
     /\ taken # <<>>
     /\ call.method \in {"send", "reset", "factory_reset", "standby",
                          "destination_net", "destination_address", "mode"})
        => /\ (result = Ok(<<>>)) <=> (StatusTaken = 0)
           /\ (StatusTaken # 0 /\ call.method = "send")
                 => result = ErrStatus(ExpectedSendDataError(StatusTaken))
           /\ (StatusTaken # 0 /\ call.method # "send")
                 => result = ErrStatus(<<>>)

C15_Witness ==
    /\ cpc = "done"
    /\ call.method = "send"
    /\ taken # <<>>
    /\ StatusTaken = 255
    /\ result = ErrStatus(<<"PayloadInvalid">>)

\* Bit k of the XOR of all the bytes of a sequence: the parity of the
\* number of bytes that have bit k set.
XorBit(bytes, k) ==
    Cardinality({i \in DOMAIN bytes : (bytes[i] \div (2 ^ k)) % 2 = 1}) % 2

\* XOR of all the bytes of a sequence.
XorAll(bytes) ==
    XorBit(bytes, 0) + 2 * XorBit(bytes, 1) + 4 * XorBit(bytes, 2)
    + 8 * XorBit(bytes, 3) + 16 * XorBit(bytes, 4) + 32 * XorBit(bytes, 5)
    + 64 * XorBit(bytes, 6) + 128 * XorBit(bytes, 7)

\* C16: for every Request kind and every payload of n <= 224 bytes, with a
\* buffer of at least n + 4 bytes, command() returns n + 4 and leaves in the
\* buffer 0x02, the kind's code, n, the payload, and the XOR of these n + 3
\* bytes; the XOR of the whole frame is 0, and the frame of the payload
\* "Hello World!" sent with SendData ends with the checksum 0x0F.
C16_EncodedFrame ==
    [][LET n == Len(codecIn.data)
           out == codecOut'.bytes
       IN  (/\ codecOut' # codecOut
            /\ n <= 224
            /\ codecIn.buflen >= n + 4)
               => /\ codecOut'.tag = "ok"
                  /\ codecOut'.size = n + 4
                  /\ Len(out) = n + 4
                  /\ out[1] = 2
                  /\ out[2] = RequestCode(codecIn.kind)
                  /\ out[3] = n
                  /\ SubSeq(out, 4, n + 3) = codecIn.data
                  /\ out[n + 4] = XorAll(SubSeq(out, 1, n + 3))
                  /\ XorAll(out) = 0
                  /\ (codecIn.kind = "SendData" /\ codecIn.data = HelloWorld)
                        => out[n + 4] = 15]_vars

C16_Witness ==
    /\ codecOut.tag = "ok"
    /\ codecIn.kind = "SetUserSetting"
    /\ Len(codecIn.data) = MAX_PAYLOAD_LEN
    /\ codecOut.size = MAX_PAYLOAD_LEN + 4

\* C17: the header and payload steps of the Ingress, run on the bytes
\* command() produced for any kind and any payload of 0..224 bytes, yield
\* the command id of that kind and of no other, and that payload; the byte
\* the checksum step finds next is the checksum of what was parsed.
\* (Stated for the runs in which no read has failed.)
C17_RoundTrip ==
    (codecOut.tag = "ok" /\ ipc = "checksum" /\ ioErrors = 0)
        => /\ cmd = RequestCode(codecIn.kind)
           /\ \A k \in RequestKinds : RequestCode(k) = cmd => k = codecIn.kind
           /\ len = Len(codecIn.data)
           /\ payload = codecIn.data
           /\ Next_(CHECKSUM_LEN) = <<XorAll(<<START, cmd, len>> \o payload)>>

C17_Witness ==
    /\ codecOut.tag = "ok"
    /\ ipc = "checksum"
    /\ ioErrors = 0
    /\ Len(codecIn.data) = MAX_PAYLOAD_LEN
    /\ payload = codecIn.data

\* The command ids of the Response variants, and of the Event variants.
ResponseCodes == {ResponseCode(k) : k \in ResponseKinds}
EventCodes == {EventCode(k) : k \in EventKinds}

\* C18: the classification of a command id is total and injective: the
\* frame of each byte goes, with empty queues, to the event queue as the one
\* Event variant that has this code, or to the response queue as the one
\* Response variant that has this code, or nowhere; distinct variants have
\* distinct codes and no code is both a Response code and an Event code.
C18_Classification ==
    [][(ChecksumStep /\ event = <<>> /\ response = <<>>)
        => /\ \A k \in EventKinds : cmd = EventCode(k)
                 => event' = <<Frame(k, payload)>> /\ response' = <<>>
           /\ \A k \in ResponseKinds : cmd = ResponseCode(k)
                 => response' = <<Frame(k, payload)>> /\ event' = <<>>
           /\ cmd \notin (EventCodes \cup ResponseCodes)
                 => event' = <<>> /\ response' = <<>>
           /\ EventCodes \cap ResponseCodes = {}
           /\ Cardinality(EventCodes) = Cardinality(EventKinds)
           /\ Cardinality(ResponseCodes) = Cardinality(ResponseKinds)]_vars

C18_Witness ==
    /\ response = <<Frame("SetChannel", <<7>>)>>
    /\ event = <<>>
    /\ Len(pushed) = 1
    /\ pushed[1].code = 70

\* C20: a frame with the start byte and a length of at most 224 whose
\* command id is neither a Response code nor an Event code is discarded:
\* the step that ends it leaves both queues unchanged, consumes the last of
\* its L + 4 bytes (the checksum byte) and goes on with the next header.
\* (Stated for the runs in which no read has failed.)
C20_UnknownIdDiscarded ==
    [][(ChecksumStep /\ ioErrors' = 0 /\ cmd \notin (EventCodes \cup ResponseCodes))
        => /\ response' = response
           /\ event' = event
           /\ ipc' = "header"
           /\ pos' = pos + 1]_vars

\* The frames the event queue accepted, oldest first.
AcceptedEvents ==
    LET acc == SelectSeq(PushesTo("event"), LAMBDA p : p.ok)
    IN  [i \in 1..Len(acc) |-> Frame(EventTryFromRaw(acc[i].code), acc[i].data)]

\* C19: each enqueued frame is consumed at most once and by its own side.
\* A frame leaves the response queue only as the frame a waiting command
\* method takes, and the event queue only as the frame poll_event returns;
\* neither step touches the other queue; an event enqueued while a method
\* waits leaves the method waiting; and the events returned so far followed
\* by those still queued are the events accepted, each one once, in order.
C19_ConsumedOnceByOwnSide ==
    [][/\ Len(response') < Len(response)
            => /\ cpc = "poll"
               /\ taken' = <<Head(response)>>
               /\ response' = Tail(response)
               /\ event' = event
               /\ delivered' = delivered
       /\ Len(event') < Len(event)
            => /\ cpc \in {"idle", "event"}
               /\ delivered' = Append(delivered, Head(event))
               /\ event' = Tail(event)
               /\ response' = response
               /\ taken' = taken
       /\ (taken' # taken /\ taken' # <<>>) => Len(response') < Len(response)
       /\ delivered' # delivered => Len(event') < Len(event)
       /\ (cpc = "poll" /\ event' # event)
            => cpc' = "poll" /\ taken' = taken /\ result' = result
       /\ (delivered \o event = AcceptedEvents)']_vars

C19_Witness ==
    /\ cpc = "done"
    /\ taken # <<>>
    /\ delivered # <<>>

\* C21: a command method that takes a Response frame returns Ok or Err,
\* whatever the length of the frame's payload, zero included: reading the
\* status byte never panics.  (Stated for the runs in which no read has
\* failed.)
C21_StatusReadNeverPanics == (cpc = "panic") => ioErrors > 0

\* C22: a command method that waits in poll_response has had all the n + 4
\* bytes of its request accepted by the transport.
C22_WholeRequestWritten ==
    (cpc = "poll") => serialTx = command(MethodRequest(call.method), call.arg)

====
